---- MODULE Spec2Model ----
(***************************************************************************)
(* Model of hooks/memory-cli.py: the SQLite node store and the GEPA        *)
(* commands (migrate, gepa-store, fitness-update, promote, deprecate,      *)
(* quarantine-check) that classify, score and promote memory nodes.        *)
(*                                                                         *)
(* Reals are fixed-point: importance and fitness are integers in units of  *)
(* 1/10000 (0.8 is 8000).  Timestamps are whole hours.  A nullable column  *)
(* is <<>> for NULL and <<v>> for the value v.  A TEXT value whose         *)
(* characters matter (quarantine_until, content, a query text) is a        *)
(* sequence of one-character strings.                                      *)
(***************************************************************************)
EXTENDS Integers, Sequences, FiniteSets, TLC

\* ---------------------------------------------------------------- bounds
\* ids uuid4() may return in the lifecycle specification
MaxNodes == 2
\* highest --cycle passed to quarantine-check
MaxCycle == 2
\* ids uuid4() may return in the creation specification
MaxCreated == 1
\* nodes of the query specification
MaxQueryNodes == 2
\* nodes of the cycle specification
MaxCycleNodes == 1
\* nodes of the specification of commands running side by side
MaxRaceNodes == 1
\* nodes of the fallback specification
MaxFallbackNodes == 2
\* nodes of the fitness specification, the highest access_count and the
\* most rows of the relations table
MaxFitnessNodes == 2
MaxAccessCount == 1
MaxRelations == 6

\* ------------------------------------------------------------- constants
DefaultImportance == 5000
DefaultFitness == 5000
min_fitness == 8000
ConstantThreshold == 8000
DefaultMaxAgeDays == 90
HoursPerDay == 24
\* args.limit or N of search, of gepa-query and of its fallback
SearchLimit == 10
GepaQueryLimit == 10
FallbackLimit == 5

NULL == <<>>
Some(v) == <<v>>
IsNull(o) == o = <<>>
Val(o) == o[1]

\* uuid4()[:12] draws from a finite id space
Ids == 1..MaxNodes

NodeTypes == {"fact", "decision", "pattern", "error", "task", "file"}
Layers == {"constant", "mutating", "file"}
\* argparse default=None for --layer
NoLayer == "None"

\* ------------------------------------------------------ int(q_until)
DigitVal == ("0" :> 0) @@ ("1" :> 1) @@ ("2" :> 2) @@ ("3" :> 3) @@ ("4" :> 4) @@
            ("5" :> 5) @@ ("6" :> 6) @@ ("7" :> 7) @@ ("8" :> 8) @@ ("9" :> 9)
Digit == DOMAIN DigitVal
Space == {" ", "\t", "\n", "\r", "\f"}

RECURSIVE LStrip(_)
LStrip(s) == IF s # <<>> /\ Head(s) \in Space THEN LStrip(Tail(s)) ELSE s

RECURSIVE RStrip(_)
RStrip(s) == IF s # <<>> /\ s[Len(s)] \in Space
             THEN RStrip(SubSeq(s, 1, Len(s) - 1)) ELSE s

Strip(s) == RStrip(LStrip(s))

\* digits with single underscores allowed between digits
WellFormedDigits(b) ==
    /\ b # <<>>
    /\ b[1] \in Digit
    /\ b[Len(b)] \in Digit
    /\ \A i \in 1..Len(b) : b[i] \in Digit \cup {"_"}
    /\ \A i \in 1..(Len(b) - 1) : ~(b[i] = "_" /\ b[i + 1] = "_")

RECURSIVE DigitsValue(_, _)
DigitsValue(b, acc) ==
    IF b = <<>> THEN acc
    ELSE IF Head(b) = "_" THEN DigitsValue(Tail(b), acc)
    ELSE DigitsValue(Tail(b), 10 * acc + DigitVal[Head(b)])

\* int(s): [ok |-> FALSE] stands for ValueError
ParseInt(s) ==
    LET t == Strip(s)
        signed == t # <<>> /\ Head(t) \in {"+", "-"}
        body == IF signed THEN Tail(t) ELSE t
    IN  IF WellFormedDigits(body)
        THEN [ok |-> TRUE,
              val |-> IF signed /\ Head(t) = "-"
                      THEN 0 - DigitsValue(body, 0) ELSE DigitsValue(body, 0)]
        ELSE [ok |-> FALSE, val |-> 0]

\* ------------------------------------------------------------ inputs
\* argument values the callers supply in the lifecycle specification
CreateInputs ==
    {<<"fact", 5000>>, <<"fact", 9000>>, <<"pattern", 9000>>, <<"file", 5000>>}
CycleInputs == 0..MaxCycle
\* the arguments of the create commands in the creation specification
TypeArgs == NodeTypes
ImportanceArgs == {0, 7900, 8000, 10000}
LayerArgs == {NoLayer} \cup Layers
\* the value argument where the text stored plays no part
SomeContent == <<"a", "b">>
\* quarantine_until strings written by the external quarantine decision
QuarantineInputs == {<<"2">>, <<"1", "0">>, <<"x">>, <<>>}

VARIABLES
    nodes,      \* the nodes table: id -> row
    migrated,   \* the GEPA columns exist (PRAGMA table_info has memory_layer)
    now,        \* datetime.now(), in hours
    relations,  \* the relations table: a set of <<id, source_id, target_id>> rows
    last,       \* the command last run and the JSON it printed
    prev,       \* history: the nodes table as the command last run found it
    cycle_counter, \* the caller's evaluation cycle counter
    procs       \* the CLI processes running side by side: where each one is
                \* between its SELECT and its UPDATE, and what it read

vars == <<nodes, migrated, now, relations, last, prev, cycle_counter, procs>>
\* what no command run from start to end writes: the clock, the relations
\* table, the caller's counter and the processes under way
env == <<now, relations, cycle_counter, procs>>

\* the processes that may run at the same time
Procs == {1, 2}
\* a process: where it is (idle, read: between its SELECT and its UPDATE,
\* done: it has printed), its arguments, what its SELECT fetched (row for
\* promote, quarantined for quarantine-check) and what it printed
IdleProc ==
    [pc |-> "idle", op |-> "none", id |-> 0, cycle |-> 0,
     row |-> <<>>, quarantined |-> <<>>,
     success |-> FALSE, error |-> "", from |-> "", promoted |-> {}, failed |-> {}]

\* ------------------------------------------------------- printed results
NoResult ==
    [op |-> "none", id |-> 0, cycle |-> 0, type |-> "", importance |-> 0,
     layer |-> "", success |-> TRUE, error |-> "", gepa |-> TRUE,
     from |-> "", to |-> "", promoted |-> {}, failed |-> {}, pending |-> 0,
     migrations |-> <<>>, updated |-> 0,
     text |-> <<>>, limit |-> 0, results |-> <<>>,
     diversity |-> 0, population |-> <<>>, max_age_days |-> 0]

NotMigratedResult(op) ==
    [NoResult EXCEPT !.op = op, !.success = FALSE, !.error = "GEPA not migrated"]

\* main(): an exception in a handler is printed and the process exits 1;
\* the uncommitted transaction is rolled back
ExceptionResult(op, e) ==
    [NoResult EXCEPT !.op = op, !.success = FALSE, !.error = e]

\* ----------------------------------------------------------- the store
has_gepa_columns == migrated

\* a row as INSERTed without the GEPA columns: they take (or, before the
\* migration, will take from ALTER TABLE) their column defaults
PlainRow(content, node_type, importance) ==
    [content |-> content, node_type |-> node_type, importance |-> importance,
     accessed_at |-> now, access_count |-> 0,
     memory_layer |-> "mutating", version |-> 1, deprecated_at |-> NULL,
     fitness |-> DefaultFitness, generation |-> 0,
     promoted_from |-> NULL, quarantine_until |-> NULL]

Init ==
    /\ nodes = <<>>
    /\ migrated = FALSE
    /\ now = 0
    /\ relations = {}
    /\ last = NoResult
    /\ prev = <<>>
    /\ cycle_counter = 0
    /\ procs = [p \in Procs |-> IdleProc]

\* args.importance or 0.5
ImportanceOrDefault(importance) ==
    IF importance = 0 THEN DefaultImportance ELSE importance

\* fast_store: INSERT with a new uuid; a taken id violates the primary key
fast_store(node_id, content, node_type, importance, res) ==
    IF node_id \in DOMAIN nodes
    THEN /\ prev' = nodes /\ last' = ExceptionResult(res.op, "IntegrityError")
         /\ UNCHANGED <<nodes, migrated, env>>
    ELSE /\ nodes' = nodes @@ (node_id :> PlainRow(content, node_type, importance))
         /\ prev' = nodes /\ last' = [res EXCEPT !.id = node_id]
         /\ UNCHANGED <<migrated, env>>

cmd_store(node_id, content, node_type, importance) ==
    fast_store(node_id, content, node_type, ImportanceOrDefault(importance),
               [NoResult EXCEPT !.op = "store", !.type = node_type,
                                !.importance = importance])

\* AutoClassify with the threshold excluded (importance > 0.8): C8 rejects it
AutoClassify_StrictThreshold(node_type, importance) ==
    IF node_type = "file" THEN "file"
    ELSE IF node_type \in {"pattern", "decision"} /\ importance > ConstantThreshold
         THEN "constant"
         ELSE "mutating"

\* the layer rule of gepa-store when --layer is not given
AutoClassify(node_type, importance) ==
    IF node_type = "file" THEN "file"
    ELSE IF node_type \in {"pattern", "decision"} /\ importance >= ConstantThreshold
         THEN "constant"
         ELSE "mutating"

\* ChosenLayer without the rule (layer = args.layer or "mutating" alone):
\* C7 rejects it
ChosenLayer_NoRule(layer_arg, node_type, importance) ==
    IF layer_arg = NoLayer THEN "mutating" ELSE layer_arg

\* ChosenLayer with the rule applied whatever --layer says: C9 rejects it
ChosenLayer_AlwaysRule(layer_arg, node_type, importance) ==
    IF node_type = "file" THEN "file"
    ELSE IF node_type \in {"pattern", "decision"} /\ importance >= ConstantThreshold
         THEN "constant"
         ELSE IF layer_arg = NoLayer THEN "mutating" ELSE layer_arg

\* layer = args.layer or "mutating", then the rule if not args.layer
ChosenLayer(layer_arg, node_type, importance) ==
    IF layer_arg = NoLayer THEN AutoClassify(node_type, importance) ELSE layer_arg

cmd_gepa_store(node_id, content, node_type, importance_arg, layer_arg) ==
    IF ~has_gepa_columns
    THEN fast_store(node_id, content, node_type, ImportanceOrDefault(importance_arg),
                    [NoResult EXCEPT !.op = "gepa-store", !.gepa = FALSE,
                                     !.type = node_type,
                                     !.importance = importance_arg,
                                     !.layer = layer_arg])
    ELSE LET importance == ImportanceOrDefault(importance_arg)
             layer == ChosenLayer(layer_arg, node_type, importance)
             res == [NoResult EXCEPT !.op = "gepa-store", !.type = node_type,
                                     !.importance = importance_arg,
                                     !.layer = layer_arg]
         IN  IF node_id \in DOMAIN nodes
             THEN /\ prev' = nodes /\ last' = ExceptionResult("gepa-store", "IntegrityError")
                  /\ UNCHANGED <<nodes, migrated, env>>
             ELSE /\ nodes' = nodes @@
                        (node_id :> [PlainRow(content, node_type, importance) EXCEPT
                                        !.memory_layer = layer,
                                        !.fitness = importance,
                                        !.generation = 0])
                  /\ prev' = nodes /\ last' = [res EXCEPT !.id = node_id, !.to = layer]
                  /\ UNCHANGED <<migrated, env>>

\* ------------------------------------------------------------ migrate
gepa_columns ==
    <<"memory_layer", "version", "deprecated_at", "fitness", "generation",
      "promoted_from", "quarantine_until">>

Migration(kind, col, constant_count, file_count) ==
    [kind |-> kind, col |-> col, constant |-> constant_count, file |-> file_count]

\* the constant backfill with the threshold excluded: C18 rejects it
BackfillConstant_StrictThreshold(store) ==
    [n \in DOMAIN store |->
        IF store[n].node_type \in {"pattern", "decision"}
           /\ store[n].importance > ConstantThreshold
        THEN [store[n] EXCEPT !.memory_layer = "constant"]
        ELSE store[n]]

\* UPDATE nodes SET memory_layer = 'constant'
\*   WHERE node_type IN ('pattern', 'decision') AND importance >= 0.8
BackfillConstant(store) ==
    [n \in DOMAIN store |->
        IF store[n].node_type \in {"pattern", "decision"}
           /\ store[n].importance >= ConstantThreshold
        THEN [store[n] EXCEPT !.memory_layer = "constant"]
        ELSE store[n]]

\* UPDATE nodes SET memory_layer = 'file'
\*   WHERE node_type = 'file' AND memory_layer = 'mutating'
BackfillFile(store) ==
    [n \in DOMAIN store |->
        IF store[n].node_type = "file" /\ store[n].memory_layer = "mutating"
        THEN [store[n] EXCEPT !.memory_layer = "file"]
        ELSE store[n]]

\* SELECT changes(): the rows the UPDATE matched
ConstantMatches(store) ==
    {n \in DOMAIN store : store[n].node_type \in {"pattern", "decision"}
                          /\ store[n].importance >= ConstantThreshold}
FileMatches(store) ==
    {n \in DOMAIN store : store[n].node_type = "file"
                          /\ store[n].memory_layer = "mutating"}

\* the migration that classifies whether or not the columns already
\* exist: C16 rejects it
Migrate_AlwaysClassifies(store, has_columns) ==
    LET s1 == BackfillConstant(store)
        s2 == BackfillFile(s1)
        added == IF has_columns THEN <<>>
                 ELSE [i \in 1..Len(gepa_columns) |->
                          Migration("added", gepa_columns[i], 0, 0)]
    IN  [nodes |-> s2,
         migrations |-> Append(added,
              Migration("classified", "",
                        Cardinality(ConstantMatches(store)),
                        Cardinality(FileMatches(s1))))]

\* the whole command on a store: the store it leaves and the migrations
\* it prints.  Columns are added, and rows classified, only if memory_layer
\* is not yet a column
Migrate(store, has_columns) ==
    IF ~has_columns
    THEN LET s1 == BackfillConstant(store)
             s2 == BackfillFile(s1)
             added == [i \in 1..Len(gepa_columns) |->
                          Migration("added", gepa_columns[i], 0, 0)]
         IN  [nodes |-> s2,
              migrations |-> Append(added,
                   Migration("classified", "",
                             Cardinality(ConstantMatches(store)),
                             Cardinality(FileMatches(s1))))]
    ELSE [nodes |-> store, migrations |-> <<>>]

cmd_migrate ==
    LET r == Migrate(nodes, has_gepa_columns)
    IN  /\ migrated' = TRUE
        /\ nodes' = r.nodes
        /\ prev' = nodes
        /\ last' = [NoResult EXCEPT !.op = "migrate", !.migrations = r.migrations]
        /\ UNCHANGED env

\* ------------------------------------------------------------ promote
\* promote without its early return for constant nodes: C6 rejects it
AlreadyConstant_Never(row) == FALSE

\* row[0] == "constant": the early return of promote
AlreadyConstant(row) == row.memory_layer = "constant"

\* promote's UPDATE without quarantine_until = NULL: C5 rejects it
PromotedRow_KeepsQuarantine(row) ==
    [row EXCEPT !.memory_layer = "constant",
                !.promoted_from = Some(row.memory_layer),
                !.version = @ + 1]

\* UPDATE nodes SET memory_layer = 'constant', promoted_from = ?,
\*   quarantine_until = NULL, version = version + 1 WHERE id = ?
PromotedRow(row) ==
    [row EXCEPT !.memory_layer = "constant",
                !.promoted_from = Some(row.memory_layer),
                !.quarantine_until = NULL,
                !.version = @ + 1]

cmd_promote(node_id) ==
    IF ~has_gepa_columns
    THEN /\ prev' = nodes /\ last' = [NotMigratedResult("promote") EXCEPT !.id = node_id]
         /\ UNCHANGED <<nodes, migrated, env>>
    ELSE IF node_id \notin DOMAIN nodes
    THEN /\ prev' = nodes /\ last' = [NoResult EXCEPT !.op = "promote", !.id = node_id,
                        !.success = FALSE, !.error = "Node not found"]
         /\ UNCHANGED <<nodes, migrated, env>>
    ELSE IF AlreadyConstant(nodes[node_id])
    THEN /\ prev' = nodes /\ last' = [NoResult EXCEPT !.op = "promote", !.id = node_id,
                        !.success = FALSE, !.error = "Already constant"]
         /\ UNCHANGED <<nodes, migrated, env>>
    ELSE /\ nodes' = [nodes EXCEPT ![node_id] = PromotedRow(@)]
         /\ prev' = nodes /\ last' = [NoResult EXCEPT !.op = "promote", !.id = node_id,
                        !.from = nodes[node_id].memory_layer, !.to = "constant"]
         /\ UNCHANGED <<migrated, env>>

\* ---------------------------------------------------------- deprecate
cmd_deprecate(node_id) ==
    IF ~has_gepa_columns
    THEN /\ prev' = nodes /\ last' = [NotMigratedResult("deprecate") EXCEPT !.id = node_id]
         /\ UNCHANGED <<nodes, migrated, env>>
    ELSE IF node_id \notin DOMAIN nodes
    THEN /\ prev' = nodes /\ last' = [NoResult EXCEPT !.op = "deprecate", !.id = node_id,
                        !.success = FALSE, !.error = "Node not found"]
         /\ UNCHANGED <<nodes, migrated, env>>
    ELSE /\ nodes' = [nodes EXCEPT ![node_id].deprecated_at = Some(now)]
         /\ prev' = nodes /\ last' = [NoResult EXCEPT !.op = "deprecate", !.id = node_id]
         /\ UNCHANGED <<migrated, env>>

\* --------------------------------------------------- quarantine-check
\* SELECT ... WHERE quarantine_until IS NOT NULL AND quarantine_until != ''
\*   AND deprecated_at IS NULL AND memory_layer = 'mutating'
quarantined(store) ==
    {n \in DOMAIN store :
        /\ ~IsNull(store[n].quarantine_until)
        /\ Val(store[n].quarantine_until) # <<>>
        /\ IsNull(store[n].deprecated_at)
        /\ store[n].memory_layer = "mutating"}

\* the loop body without the fitness test: C2 rejects it
RowOutcome_NoFitnessTest(row, current_cycle) ==
    LET q == ParseInt(Val(row.quarantine_until))
    IN  IF ~q.ok THEN "skipped"
        ELSE IF current_cycle >= q.val THEN "promoted"
        ELSE "waiting"

\* the loop body with the cycle comparison turned round: C3 rejects it
RowOutcome_CycleReversed(row, current_cycle) ==
    LET q == ParseInt(Val(row.quarantine_until))
    IN  IF ~q.ok THEN "skipped"
        ELSE IF q.val >= current_cycle
        THEN IF row.fitness >= min_fitness THEN "promoted" ELSE "failed"
        ELSE "waiting"

\* the loop body with an unreadable cycle taken as reached: C19 rejects it
RowOutcome_UnparseableResolved(row, current_cycle) ==
    LET q == ParseInt(Val(row.quarantine_until))
    IN  IF ~q.ok \/ current_cycle >= q.val
        THEN IF row.fitness >= min_fitness THEN "promoted" ELSE "failed"
        ELSE "waiting"

\* the loop body that keeps an unfit node on trial: C21 rejects it
RowOutcome_UnfitWaits(row, current_cycle) ==
    LET q == ParseInt(Val(row.quarantine_until))
    IN  IF ~q.ok THEN "skipped"
        ELSE IF current_cycle >= q.val /\ row.fitness >= min_fitness THEN "promoted"
        ELSE "waiting"

\* the loop body's decision for one selected row
RowOutcome(row, current_cycle) ==
    LET q == ParseInt(Val(row.quarantine_until))
    IN  IF ~q.ok THEN "skipped"
        ELSE IF current_cycle >= q.val
        THEN IF row.fitness >= min_fitness THEN "promoted" ELSE "failed"
        ELSE "waiting"

\* the promoting UPDATE without version = version + 1: C1 rejects it
RowUpdate_NoVersionBump(row, outcome) ==
    IF outcome = "promoted"
    THEN [row EXCEPT !.memory_layer = "constant",
                     !.promoted_from = Some("mutating"),
                     !.quarantine_until = NULL]
    ELSE IF outcome = "failed"
    THEN [row EXCEPT !.quarantine_until = NULL]
    ELSE row

\* a promotion that keeps quarantine_until: C13 rejects it
RowUpdate_PromotedKeepsQuarantine(row, outcome) ==
    IF outcome = "promoted"
    THEN [row EXCEPT !.memory_layer = "constant",
                     !.promoted_from = Some("mutating"),
                     !.version = @ + 1]
    ELSE IF outcome = "failed"
    THEN [row EXCEPT !.quarantine_until = NULL]
    ELSE row

\* a failed trial that keeps quarantine_until: C4 rejects it
RowUpdate_FailedKeepsQuarantine(row, outcome) ==
    IF outcome = "promoted"
    THEN [row EXCEPT !.memory_layer = "constant",
                     !.promoted_from = Some("mutating"),
                     !.quarantine_until = NULL,
                     !.version = @ + 1]
    ELSE row

\* the two UPDATE statements of the loop
RowUpdate(row, outcome) ==
    IF outcome = "promoted"
    THEN [row EXCEPT !.memory_layer = "constant",
                     !.promoted_from = Some("mutating"),
                     !.quarantine_until = NULL,
                     !.version = @ + 1]
    ELSE IF outcome = "failed"
    THEN [row EXCEPT !.quarantine_until = NULL]
    ELSE row

\* the whole command on a store: the store it leaves and what it prints
QuarantineCheck(store, current_cycle) ==
    LET sel == quarantined(store)
        out == [n \in sel |-> RowOutcome(store[n], current_cycle)]
        promoted == {n \in sel : out[n] = "promoted"}
        failed == {n \in sel : out[n] = "failed"}
    IN  [nodes |-> [n \in DOMAIN store |->
                       IF n \in sel THEN RowUpdate(store[n], out[n]) ELSE store[n]],
         promoted |-> {[id |-> n, fitness |-> store[n].fitness] : n \in promoted},
         failed |-> {[id |-> n, fitness |-> store[n].fitness] : n \in failed},
         pending |-> Cardinality(sel) - Cardinality(promoted) - Cardinality(failed)]

cmd_quarantine_check(cycle) ==
    IF ~has_gepa_columns
    THEN /\ prev' = nodes /\ last' = [NotMigratedResult("quarantine-check") EXCEPT !.cycle = cycle]
         /\ UNCHANGED <<nodes, migrated, env>>
    ELSE LET r == QuarantineCheck(nodes, cycle)
         IN  /\ nodes' = r.nodes
             /\ prev' = nodes /\ last' = [NoResult EXCEPT !.op = "quarantine-check", !.cycle = cycle,
                            !.promoted = r.promoted, !.failed = r.failed,
                            !.pending = r.pending]
             /\ UNCHANGED <<migrated, env>>

\* ------------------------------------------- the quarantine decision
\* made outside this program: an active mutating node is put on probation
\* by writing a target cycle (as text) to quarantine_until
SetQuarantine(node_id, q_until) ==
    /\ has_gepa_columns
    /\ node_id \in DOMAIN nodes
    /\ nodes[node_id].memory_layer = "mutating"
    /\ IsNull(nodes[node_id].deprecated_at)
    /\ IsNull(nodes[node_id].quarantine_until)
    /\ nodes' = [nodes EXCEPT ![node_id].quarantine_until = Some(q_until)]
    /\ prev' = nodes /\ last' = [NoResult EXCEPT !.op = "set-quarantine", !.id = node_id]
    /\ UNCHANGED <<migrated, env>>

\* ------------------------------------------------------ fitness-update
\* round(x, 4) of the rational n/d (d > 0), in units of 1/10000: to the
\* nearest, an exact tie to the even neighbour
RoundHalfEven(n, d) ==
    LET q == n \div d
        r == n % d
    IN  IF 2 * r < d THEN q
        ELSE IF 2 * r > d THEN q + 1
        ELSE IF q % 2 = 0 THEN q ELSE q + 1

\* SELECT COUNT(*) FROM relations WHERE target_id = ?
Inbound(node_id) == Cardinality({r \in relations : r[3] = node_id})

SetMax(S) == CHOOSE m \in S : \A x \in S : x <= m

\* the rows fitness-update scores: all of them, or those of --layer
Population(layer_filter) ==
    {n \in DOMAIN nodes :
        layer_filter = NoLayer \/ nodes[n].memory_layer = layer_filter}

\* COALESCE(MAX(access_count), 1) ... or 1
MaxAccess(layer_filter) ==
    LET pop == Population(layer_filter)
        m == IF pop = {} THEN 1 ELSE SetMax({nodes[n].access_count : n \in pop})
    IN  IF m = 0 THEN 1 ELSE m

\* the weighted sum with the weights of importance and age exchanged:
\* C15 rejects it
Fitness_WeightsExchanged(node_id, max_access, max_age_days) ==
    LET row == nodes[node_id]
        days_since == (now - row.accessed_at) \div HoursPerDay
        ageDen == IF max_age_days < 0 THEN 0 - max_age_days ELSE max_age_days
        ageRaw == IF max_age_days < 0 THEN days_since - max_age_days
                  ELSE max_age_days - days_since
        ageNum == IF ageRaw < 0 THEN 0 ELSE ageRaw
        inbound == Inbound(node_id)
        refNum == IF inbound > 5 THEN 5 ELSE inbound
        d == 10 * max_access * ageDen
        n == 3000 * row.access_count * 10 * ageDen
             + 2 * row.importance * max_access * ageDen
             + 3000 * ageNum * 10 * max_access
             + 400 * refNum * 10 * max_access * ageDen
    IN  RoundHalfEven(n, d)

\* 0.3*norm_access + 0.3*importance + 0.2*age_factor + 0.2*referral_factor,
\* rounded to 4 decimals; computed exactly over the denominator 10*M*|A|
Fitness(node_id, max_access, max_age_days) ==
    LET row == nodes[node_id]
        \* timedelta.days: whole days, rounded down (-1 for any instant ahead)
        days_since == (now - row.accessed_at) \div HoursPerDay
        \* 1 - days_since/max_age_days as a fraction with a positive denominator
        ageDen == IF max_age_days < 0 THEN 0 - max_age_days ELSE max_age_days
        ageRaw == IF max_age_days < 0 THEN days_since - max_age_days
                  ELSE max_age_days - days_since
        ageNum == IF ageRaw < 0 THEN 0 ELSE ageRaw
        inbound == Inbound(node_id)
        refNum == IF inbound > 5 THEN 5 ELSE inbound
        d == 10 * max_access * ageDen
        n == 3000 * row.access_count * 10 * ageDen
             + 3 * row.importance * max_access * ageDen
             + 2000 * ageNum * 10 * max_access
             + 400 * refNum * 10 * max_access * ageDen
    IN  RoundHalfEven(n, d)

cmd_fitness_update(layer_filter, max_age_days_arg) ==
    IF ~has_gepa_columns
    THEN /\ prev' = nodes /\ last' = [NoResult EXCEPT !.op = "fitness-update",
                        !.error = "GEPA not migrated"]
         /\ UNCHANGED <<nodes, migrated, env>>
    ELSE LET max_age_days == IF max_age_days_arg = 0 THEN DefaultMaxAgeDays
                             ELSE max_age_days_arg
             max_access == MaxAccess(layer_filter)
             rows == Population(layer_filter)
         IN  /\ nodes' = [n \in DOMAIN nodes |->
                            IF n \in rows
                            THEN [nodes[n] EXCEPT
                                    !.fitness = Fitness(n, max_access, max_age_days)]
                            ELSE nodes[n]]
             /\ prev' = nodes /\ last' = [NoResult EXCEPT !.op = "fitness-update",
                            !.layer = layer_filter,
                            !.max_age_days = max_age_days,
                            !.updated = Cardinality(rows)]
             /\ UNCHANGED <<migrated, env>>

\* ------------------------------------------------- the environment
\* what other programs sharing the database and the system clock do; no
\* command of the CLI has run on the store they leave
EnvironmentStep == [NoResult EXCEPT !.op = "environment"]

\* a retrieval by the graph memory: the node's access is recorded
Access(node_id) ==
    /\ node_id \in DOMAIN nodes
    /\ nodes[node_id].access_count < MaxAccessCount
    /\ nodes' = [nodes EXCEPT ![node_id].access_count = @ + 1,
                              ![node_id].accessed_at = now]
    /\ prev' = <<>> /\ last' = EnvironmentStep
    /\ UNCHANGED <<migrated, env>>

\* the graph memory links source to target: count new rows of the relations
\* table (AUTOINCREMENT ids; nothing checks that the ids are nodes)
AddRelations(source, target, count) ==
    /\ Cardinality(relations) + count <= MaxRelations
    /\ relations' = relations \cup
          {<<Cardinality(relations) + k, source, target>> : k \in 1..count}
    /\ prev' = <<>> /\ last' = EnvironmentStep
    /\ UNCHANGED <<nodes, migrated, now, cycle_counter, procs>>

\* the caller moves on to the next evaluation cycle once quarantine-check
\* has been run for the current one
AdvanceCycle ==
    /\ last.op = "quarantine-check"
    /\ last.cycle = cycle_counter
    /\ cycle_counter < MaxCycle
    /\ cycle_counter' = cycle_counter + 1
    /\ prev' = <<>> /\ last' = EnvironmentStep
    /\ UNCHANGED <<nodes, migrated, now, relations, procs>>

\* datetime.now() is the wall clock in local time: it moves forward, and
\* back by an hour when daylight saving time ends
ClockStep(t) ==
    /\ t > now \/ t = now - 1
    /\ now' = t
    /\ prev' = <<>> /\ last' = EnvironmentStep
    /\ UNCHANGED <<nodes, migrated, relations, cycle_counter, procs>>

\* ------------------------------------------------------------ reflect
\* reflect counting deprecated rows as well: C20 rejects it
ReflectQuarantined_CountsDeprecated(store) ==
    {n \in DOMAIN store :
        /\ ~IsNull(store[n].quarantine_until)
        /\ Val(store[n].quarantine_until) # <<>>}

\* SELECT COUNT(*) FROM nodes WHERE quarantine_until IS NOT NULL
\*   AND quarantine_until != '' AND deprecated_at IS NULL
ReflectQuarantined(store) ==
    {n \in DOMAIN store :
        /\ ~IsNull(store[n].quarantine_until)
        /\ Val(store[n].quarantine_until) # <<>>
        /\ IsNull(store[n].deprecated_at)}

\* SELECT COUNT(DISTINCT node_type) ... WHERE memory_layer = 'mutating'
\*   AND deprecated_at IS NULL
DistinctTypes(store) ==
    {store[n].node_type : n \in {m \in DOMAIN store :
        store[m].memory_layer = "mutating" /\ IsNull(store[m].deprecated_at)}}

\* SELECT memory_layer, COUNT(*) ... WHERE deprecated_at IS NULL
\*   GROUP BY memory_layer
LayerPopulation(store) ==
    LET active == {n \in DOMAIN store : IsNull(store[n].deprecated_at)}
    IN  [l \in {store[n].memory_layer : n \in active} |->
            Cardinality({n \in active : store[n].memory_layer = l})]

cmd_reflect ==
    IF ~has_gepa_columns
    THEN /\ prev' = nodes /\ last' = NotMigratedResult("reflect")
         /\ UNCHANGED <<nodes, migrated, env>>
    ELSE /\ prev' = nodes
         /\ last' = [NoResult EXCEPT !.op = "reflect",
                        !.diversity = Cardinality(DistinctTypes(nodes)),
                        !.population = LayerPopulation(nodes),
                        !.pending = Cardinality(ReflectQuarantined(nodes))]
         /\ UNCHANGED <<nodes, migrated, env>>

\* ------------------------------------------------------------ queries
\* str.lower() and LOWER(): the ASCII letters of the model's alphabet
LowerOf == ("A" :> "a") @@ ("B" :> "b") @@ ("C" :> "c")
Lower(c) == IF c \in DOMAIN LowerOf THEN LowerOf[c] ELSE c
LowerSeq(s) == [i \in 1..Len(s) |-> Lower(s[i])]

\* the longest prefix of s without whitespace
RECURSIVE WordPrefix(_)
WordPrefix(s) ==
    IF s = <<>> \/ Head(s) \in Space THEN <<>>
    ELSE <<Head(s)>> \o WordPrefix(Tail(s))

\* str.split(): the whitespace-separated words of s
RECURSIVE Split(_)
Split(s) ==
    LET t == LStrip(s)
    IN  IF t = <<>> THEN <<>>
        ELSE LET w == WordPrefix(t)
             IN  <<w>> \o Split(SubSeq(t, Len(w) + 1, Len(t)))

\* the slice [:5]
MaxWords == 5
FirstWords(ws) == SubSeq(ws, 1, IF Len(ws) < MaxWords THEN Len(ws) ELSE MaxWords)

\* s LIKE p: % is any run of characters, _ any one character, a letter
\* matches whatever its case
RECURSIVE LikeMatch(_, _)
LikeMatch(p, s) ==
    IF p = <<>> THEN s = <<>>
    ELSE IF Head(p) = "%"
         THEN LikeMatch(Tail(p), s) \/ (s # <<>> /\ LikeMatch(p, Tail(s)))
    ELSE IF s = <<>> THEN FALSE
    ELSE IF Head(p) = "_" THEN LikeMatch(Tail(p), Tail(s))
    ELSE Lower(Head(p)) = Lower(Head(s)) /\ LikeMatch(Tail(p), Tail(s))

\* the text clause: no clause for an empty text, else
\* (LOWER(content) LIKE '%w1%' OR ... ) over the first five words
TextMatches(content, text) ==
    LET words == FirstWords(Split(LowerSeq(text)))
    IN  \/ text = <<>>
        \/ words = <<>>
        \/ \E i \in 1..Len(words) :
              LikeMatch(<<"%">> \o words[i] \o <<"%">>, LowerSeq(content))

\* ORDER BY k1 DESC, k2 DESC LIMIT ?: every sequence of the rows in S the
\* database may return (rows equal in both keys come in any order; a
\* negative LIMIT is no limit)
OrderedLimited(S, k1, k2, limit) ==
    LET n == Cardinality(S)
        m == IF limit < 0 \/ limit > n THEN n ELSE limit
    IN  {SubSeq(f, 1, m) : f \in
            {g \in [1..n -> S] :
                /\ \A i, j \in 1..n : i # j => g[i] # g[j]
                /\ \A i \in 1..(n - 1) :
                      \/ k1[g[i]] > k1[g[i + 1]]
                      \/ k1[g[i]] = k1[g[i + 1]] /\ k2[g[i]] >= k2[g[i + 1]]}}

\* fast_query without a node_type: the plain query
fast_query(store, search_term, limit) ==
    OrderedLimited({n \in DOMAIN store : TextMatches(store[n].content, search_term)},
                   [n \in DOMAIN store |-> store[n].importance],
                   [n \in DOMAIN store |-> store[n].access_count],
                   limit)

\* the search command: fast_query(args.query, limit=args.limit or 10)
cmd_search(text, limit_arg) ==
    \E r \in fast_query(nodes, text, IF limit_arg = 0 THEN SearchLimit ELSE limit_arg) :
        /\ prev' = nodes
        /\ last' = [NoResult EXCEPT !.op = "search", !.text = text,
                                    !.limit = limit_arg, !.results = r]
        /\ UNCHANGED <<nodes, migrated, env>>

\* the SELECT of gepa-query on the migrated store
GepaQueryRows(store, text, layer_arg) ==
    {n \in DOMAIN store :
        /\ layer_arg = NoLayer \/ store[n].memory_layer = layer_arg
        /\ TextMatches(store[n].content, text)}

cmd_gepa_query(text, layer_arg, limit_arg) ==
    IF ~has_gepa_columns
    THEN \E r \in fast_query(nodes, text,
                             IF limit_arg = 0 THEN FallbackLimit ELSE limit_arg) :
            /\ prev' = nodes
            /\ last' = [NoResult EXCEPT !.op = "gepa-query", !.gepa = FALSE,
                                        !.text = text, !.layer = layer_arg,
                                        !.limit = limit_arg, !.results = r]
            /\ UNCHANGED <<nodes, migrated, env>>
    ELSE \E r \in OrderedLimited(GepaQueryRows(nodes, text, layer_arg),
                                 [n \in DOMAIN nodes |-> nodes[n].fitness],
                                 [n \in DOMAIN nodes |-> nodes[n].importance],
                                 IF limit_arg = 0 THEN GepaQueryLimit ELSE limit_arg) :
            /\ prev' = nodes
            /\ last' = [NoResult EXCEPT !.op = "gepa-query",
                                        !.text = text, !.layer = layer_arg,
                                        !.limit = limit_arg, !.results = r]
            /\ UNCHANGED <<nodes, migrated, env>>

\* the lifecycle specification takes uuid4() to return an unused id, the
\* lowest one: the ids are interchangeable
FreshIds == {i \in Ids : i \notin DOMAIN nodes /\ \A j \in 1..(i - 1) : j \in DOMAIN nodes}

Next ==
    \/ \E i \in FreshIds, c \in CreateInputs : cmd_store(i, SomeContent, c[1], c[2])
    \/ \E i \in FreshIds, c \in CreateInputs : cmd_gepa_store(i, SomeContent, c[1], c[2], NoLayer)
    \/ cmd_migrate
    \/ \E i \in Ids : cmd_promote(i)
    \/ \E i \in Ids : cmd_deprecate(i)
    \/ \E c \in CycleInputs : cmd_quarantine_check(c)
    \/ \E i \in Ids, q \in QuarantineInputs : SetQuarantine(i, q)
    \/ cmd_fitness_update(NoLayer, DefaultMaxAgeDays)
    \/ cmd_reflect

Spec == Init /\ [][Next]_vars

\* ------------------------------------------- the creation specification
\* the create commands over every type, importance and layer argument, with
\* uuid4() free to return an id that is already taken
CreateIds == 1..MaxCreated

NextCreate ==
    \/ \E i \in CreateIds, t \in TypeArgs, imp \in ImportanceArgs :
          cmd_store(i, SomeContent, t, imp)
    \/ \E i \in CreateIds, t \in TypeArgs, imp \in ImportanceArgs, l \in LayerArgs :
          cmd_gepa_store(i, SomeContent, t, imp, l)
    \/ cmd_migrate

SpecCreate == Init /\ [][NextCreate]_vars

\* ---------------------------------------------- the query specification
\* the query commands over every text, layer and limit argument, on stores
\* of at most MaxQueryNodes nodes whose texts, layers and fitness differ
QueryIds == 1..MaxQueryNodes
FreshQueryIds ==
    {i \in QueryIds : i \notin DOMAIN nodes /\ \A j \in 1..(i - 1) : j \in DOMAIN nodes}
Contents == {<<"a", "b">>, <<"B", "c">>}
QueryTexts == {<<>>, <<"b">>, <<"A", " ", "z">>, <<"_", "c">>, <<"z">>}
LimitArgs == {0 - 1, 0, 1}
QueryLayerArgs == {NoLayer, "mutating", "constant"}
QueryCreateInputs == {<<"fact", 5000>>, <<"pattern", 9000>>}

NextQuery ==
    \/ \E i \in FreshQueryIds, t \in Contents : cmd_store(i, t, "fact", 5000)
    \/ \E i \in FreshQueryIds, t \in Contents, c \in QueryCreateInputs :
          cmd_gepa_store(i, t, c[1], c[2], NoLayer)
    \/ cmd_migrate
    \/ \E i \in QueryIds : cmd_deprecate(i)
    \/ \E t \in QueryTexts, l \in QueryLayerArgs, k \in LimitArgs : cmd_gepa_query(t, l, k)
    \/ \E t \in QueryTexts, k \in LimitArgs : cmd_search(t, k)

SpecQuery == Init /\ [][NextQuery]_vars

\* ------------------------------------------- the fallback specification
\* every command, before the migration and after it, on stores of at most
\* MaxFallbackNodes nodes
FallbackIds == 1..MaxFallbackNodes
FreshFallbackIds ==
    {i \in FallbackIds : i \notin DOMAIN nodes /\ \A j \in 1..(i - 1) : j \in DOMAIN nodes}
FallbackCreateInputs == {<<"fact", 0>>, <<"file", 5000>>, <<"pattern", 9000>>}
FallbackTexts == {<<>>, <<"B">>}

NextFallback ==
    \/ \E i \in FreshFallbackIds, t \in Contents : cmd_store(i, t, "fact", 5000)
    \/ \E i \in FreshFallbackIds, c \in FallbackCreateInputs, l \in {NoLayer, "constant"} :
          cmd_gepa_store(i, SomeContent, c[1], c[2], l)
    \/ cmd_migrate
    \/ \E i \in FallbackIds : cmd_promote(i)
    \/ \E i \in FallbackIds : cmd_deprecate(i)
    \/ cmd_quarantine_check(1)
    \/ cmd_fitness_update(NoLayer, DefaultMaxAgeDays)
    \/ cmd_reflect
    \/ \E t \in FallbackTexts, l \in {NoLayer, "mutating"}, k \in {0, 1} :
          cmd_gepa_query(t, l, k)
    \/ \E t \in FallbackTexts, k \in {0, 1} : cmd_search(t, k)

SpecFallback == Init /\ [][NextFallback]_vars

\* -------------------------------------------- the fitness specification
\* fitness-update over every layer filter and over stores whose nodes
\* differ in importance, layer, access count, age and inbound relations
FitnessIds == 1..MaxFitnessNodes
FreshFitnessIds ==
    {i \in FitnessIds : i \notin DOMAIN nodes /\ \A j \in 1..(i - 1) : j \in DOMAIN nodes}
FitnessCreateInputs == {<<5000, NoLayer>>, <<10000, NoLayer>>, <<10000, "constant">>}
\* the instants the clock shows, in hours: 1081 is 45 days after 1, 2185 is
\* 91 days after 1 and 46 days after 1081
Instants == {0, 1, 1081, 2185}
MaxAgeArgs == {1, 90}
FitnessLayerArgs == {NoLayer, "mutating"}
\* the links the graph memory adds in one go
RelationCounts == {3}

NextFitness ==
    \/ \E i \in FreshFitnessIds, c \in FitnessCreateInputs :
          cmd_gepa_store(i, SomeContent, "fact", c[1], c[2])
    \/ cmd_migrate
    \/ \E i \in FitnessIds : Access(i)
    \/ \E k \in RelationCounts : AddRelations(2, 1, k)
    \/ \E t \in Instants : ClockStep(t)
    \/ \E l \in FitnessLayerArgs, a \in MaxAgeArgs : cmd_fitness_update(l, a)

SpecFitness == Init /\ [][NextFitness]_vars

\* ---------------------------------------------- the cycle specification
\* the caller runs quarantine-check at every cycle and then moves to the
\* next one, while nodes are created, put on probation and deprecated
CycleIds == 1..MaxCycleNodes
FreshCycleIds ==
    {i \in CycleIds : i \notin DOMAIN nodes /\ \A j \in 1..(i - 1) : j \in DOMAIN nodes}
CycleCreateInputs == {5000, 9000}
CycleQuarantineInputs == {<<"1">>, <<"x">>, <<>>}

RunCheck == cmd_quarantine_check(cycle_counter)

NextCycle ==
    \/ \E i \in FreshCycleIds, imp \in CycleCreateInputs :
          cmd_gepa_store(i, SomeContent, "fact", imp, NoLayer)
    \/ cmd_migrate
    \/ \E i \in CycleIds, q \in CycleQuarantineInputs : SetQuarantine(i, q)
    \/ \E i \in CycleIds : cmd_deprecate(i)
    \/ RunCheck
    \/ AdvanceCycle

\* the caller keeps running quarantine-check, and keeps moving to the next
\* cycle, which it may do each time it has run quarantine-check
SpecCycle ==
    Init /\ [][NextCycle]_vars /\ WF_vars(RunCheck) /\ SF_vars(AdvanceCycle)

\* ------------------------------------- commands running side by side
\* Each command is its own process with its own connection. The SELECT runs
\* outside any transaction (python's sqlite3 opens one only before a
\* write), so between a process's SELECT and its UPDATE another process may
\* read and write the same rows; the UPDATEs of one process and its commit
\* are one transaction.
RaceDone(p, res) ==
    /\ procs' = [procs EXCEPT ![p] = res]
    /\ UNCHANGED <<nodes, migrated, now, relations, last, prev, cycle_counter>>

\* promote's UPDATE made conditional on the layer read: C22 rejects it
PromoteUpdate_IfUnchanged(current, row) ==
    IF current.memory_layer = row[1]
    THEN PromotedRow([current EXCEPT !.memory_layer = row[1]])
    ELSE current

\* promote's UPDATE ... promoted_from = ?, version = version + 1 WHERE id = ?
\* with the parameter row[0] read earlier, on the row as it is now
PromoteUpdate(current, row) ==
    PromotedRow([current EXCEPT !.memory_layer = row[1]])

\* promote up to and including its SELECT and the early returns
PromoteRead(p, node_id) ==
    /\ procs[p].pc = "idle"
    /\ LET me == [IdleProc EXCEPT !.op = "promote", !.id = node_id]
       IN  IF ~has_gepa_columns
           THEN RaceDone(p, [me EXCEPT !.pc = "done", !.error = "GEPA not migrated"])
           ELSE IF node_id \notin DOMAIN nodes
           THEN RaceDone(p, [me EXCEPT !.pc = "done", !.error = "Node not found"])
           ELSE IF AlreadyConstant(nodes[node_id])
           THEN RaceDone(p, [me EXCEPT !.pc = "done", !.row = <<"constant">>,
                                       !.error = "Already constant"])
           ELSE RaceDone(p, [me EXCEPT !.pc = "read",
                                       !.row = <<nodes[node_id].memory_layer>>])

\* promote from its UPDATE on: UPDATE, commit, print
PromoteWrite(p) ==
    /\ procs[p].pc = "read"
    /\ procs[p].op = "promote"
    /\ nodes' = [nodes EXCEPT ![procs[p].id] = PromoteUpdate(@, procs[p].row)]
    /\ procs' = [procs EXCEPT ![p].pc = "done", ![p].success = TRUE,
                              ![p].from = procs[p].row[1]]
    /\ UNCHANGED <<migrated, now, relations, last, prev, cycle_counter>>

\* quarantine-check up to and including its SELECT ... fetchall()
QCheckRead(p, cycle) ==
    /\ procs[p].pc = "idle"
    /\ LET me == [IdleProc EXCEPT !.op = "quarantine-check", !.cycle = cycle]
       IN  IF ~has_gepa_columns
           THEN RaceDone(p, [me EXCEPT !.pc = "done", !.error = "GEPA not migrated"])
           ELSE RaceDone(p, [me EXCEPT !.pc = "read",
                    !.quarantined = [n \in quarantined(nodes) |->
                        [fitness |-> nodes[n].fitness,
                         quarantine_until |-> nodes[n].quarantine_until]]])

\* quarantine-check from its loop on: the loop decides from the rows
\* fetched, each UPDATE ... WHERE id = ? acts on the row as it is now
QCheckWrite(p) ==
    /\ procs[p].pc = "read"
    /\ procs[p].op = "quarantine-check"
    /\ LET fetched == procs[p].quarantined
           out == [n \in DOMAIN fetched |-> RowOutcome(fetched[n], procs[p].cycle)]
       IN  /\ nodes' = [n \in DOMAIN nodes |->
                           IF n \in DOMAIN fetched
                           THEN RowUpdate(nodes[n], out[n]) ELSE nodes[n]]
           /\ procs' = [procs EXCEPT ![p].pc = "done", ![p].success = TRUE,
                  ![p].promoted = {[id |-> n, fitness |-> fetched[n].fitness] :
                                      n \in {m \in DOMAIN fetched : out[m] = "promoted"}},
                  ![p].failed = {[id |-> n, fitness |-> fetched[n].fitness] :
                                      n \in {m \in DOMAIN fetched : out[m] = "failed"}}]
    /\ UNCHANGED <<migrated, now, relations, last, prev, cycle_counter>>

\* the process has exited; the next command may start
Exit(p) ==
    /\ procs[p].pc = "done"
    /\ RaceDone(p, IdleProc)

RaceIds == 1..MaxRaceNodes
FreshRaceIds ==
    {i \in RaceIds : i \notin DOMAIN nodes /\ \A j \in 1..(i - 1) : j \in DOMAIN nodes}
RaceCreateInputs == {5000, 9000}
RaceQuarantineInputs == {<<"1">>}
RaceCycles == 0..1

NextRace ==
    \/ \E i \in FreshRaceIds, imp \in RaceCreateInputs :
          cmd_gepa_store(i, SomeContent, "fact", imp, NoLayer)
    \/ cmd_migrate
    \/ \E i \in RaceIds, q \in RaceQuarantineInputs : SetQuarantine(i, q)
    \/ \E p \in Procs, i \in RaceIds : PromoteRead(p, i)
    \/ \E p \in Procs : PromoteWrite(p)
    \/ \E p \in Procs, c \in RaceCycles : QCheckRead(p, c)
    \/ \E p \in Procs : QCheckWrite(p)
    \/ \E p \in Procs : Exit(p)

SpecRace == Init /\ [][NextRace]_vars

\* ===================================================================
\* Properties
\* ===================================================================
\* Each is a state predicate over the command last run (last), the table it
\* found (prev) and the table it left (nodes).
PromotedIds == {r.id : r \in last.promoted}
FailedIds == {r.id : r \in last.failed}

\* a row under quarantine whose quarantine_until reads as an integer cycle
HasCycle(row) ==
    /\ ~IsNull(row.quarantine_until)
    /\ ParseInt(Val(row.quarantine_until)).ok
CycleOf(row) == ParseInt(Val(row.quarantine_until)).val
ActiveMutating(row) == IsNull(row.deprecated_at) /\ row.memory_layer = "mutating"
Due(row, c) == HasCycle(row) /\ c >= CycleOf(row)
NotDue(row, c) == HasCycle(row) /\ c < CycleOf(row)

\* C1: quarantine-check at cycle c promotes every non-deprecated mutating
\* node whose quarantine_until is an integer q <= c and whose fitness is at
\* least 0.8: the layer becomes constant, promoted_from mutating,
\* quarantine_until NULL, version one more, nothing else changes, and the
\* node is in the promoted list.
C1_QuarantinePromotes ==
    (last.op = "quarantine-check" /\ migrated) =>
        \A n \in DOMAIN prev :
            (/\ ActiveMutating(prev[n])
             /\ Due(prev[n], last.cycle)
             /\ prev[n].fitness >= 8000)
            => /\ n \in DOMAIN nodes
               /\ nodes[n] = [prev[n] EXCEPT
                                 !.memory_layer = "constant",
                                 !.promoted_from = Some("mutating"),
                                 !.quarantine_until = NULL,
                                 !.version = prev[n].version + 1]
               /\ n \in PromotedIds
               /\ n \notin FailedIds

C1_Witness ==
    /\ last.op = "quarantine-check"
    /\ \E n \in DOMAIN prev :
          /\ ActiveMutating(prev[n])
          /\ Due(prev[n], last.cycle)
          /\ prev[n].fitness >= 8000
          /\ prev[n].version = 1
          /\ nodes[n].memory_layer = "constant"
          /\ nodes[n].version = 2
          /\ n \in PromotedIds

\* C2: quarantine-check at cycle c returns to active every non-deprecated
\* mutating node whose quarantine_until is an integer q <= c and whose
\* fitness is below 0.8: only quarantine_until changes (to NULL), and the
\* node is in the failed list.
C2_QuarantineFails ==
    (last.op = "quarantine-check" /\ migrated) =>
        \A n \in DOMAIN prev :
            (/\ ActiveMutating(prev[n])
             /\ Due(prev[n], last.cycle)
             /\ prev[n].fitness < 8000)
            => /\ n \in DOMAIN nodes
               /\ nodes[n] = [prev[n] EXCEPT !.quarantine_until = NULL]
               /\ nodes[n].memory_layer = "mutating"
               /\ nodes[n].version = prev[n].version
               /\ nodes[n].promoted_from = prev[n].promoted_from
               /\ n \in FailedIds
               /\ n \notin PromotedIds

C2_Witness ==
    /\ last.op = "quarantine-check"
    /\ \E n \in DOMAIN prev :
          /\ ActiveMutating(prev[n])
          /\ Due(prev[n], last.cycle)
          /\ prev[n].fitness < 8000
          /\ nodes[n].memory_layer = "mutating"
          /\ IsNull(nodes[n].quarantine_until)
          /\ nodes[n].version = 1
          /\ n \in FailedIds

\* C3: quarantine-check at cycle c leaves every node whose quarantine_until
\* is an integer q > c exactly as it was, whatever its fitness, lists it as
\* neither promoted nor failed, and counts each such non-deprecated mutating
\* node in pending.
C3_NotDueUntouched ==
    last.op = "quarantine-check" =>
        /\ \A n \in DOMAIN prev :
              NotDue(prev[n], last.cycle)
              => /\ n \in DOMAIN nodes
                 /\ nodes[n] = prev[n]
                 /\ n \notin PromotedIds \cup FailedIds
        /\ migrated =>
              last.pending >= Cardinality({n \in DOMAIN prev :
                  ActiveMutating(prev[n]) /\ NotDue(prev[n], last.cycle)})

C3_Witness ==
    /\ last.op = "quarantine-check"
    /\ last.pending > 0
    /\ \E n \in DOMAIN prev :
          /\ ActiveMutating(prev[n])
          /\ NotDue(prev[n], last.cycle)
          /\ prev[n].fitness >= 8000
          /\ nodes[n] = prev[n]

\* C4: quarantine-check is idempotent: on every reachable store and for
\* every cycle, a second run right after the first leaves the store as the
\* first run left it and reports nothing promoted and nothing failed.
C4_QuarantineIdempotent ==
    \A c \in CycleInputs :
        LET first == QuarantineCheck(nodes, c)
            second == QuarantineCheck(first.nodes, c)
        IN  /\ second.nodes = first.nodes
            /\ second.promoted = {}
            /\ second.failed = {}
            /\ second.pending = first.pending

\* a first run that promoted one node and returned another to active, after
\* which a second run at the same cycle finds nothing to do
C4_Witness ==
    /\ last.op = "quarantine-check"
    /\ last.promoted # {}
    /\ last.failed # {}
    /\ nodes # prev
    /\ QuarantineCheck(nodes, last.cycle).nodes = nodes
    /\ QuarantineCheck(nodes, last.cycle).promoted = {}
    /\ QuarantineCheck(nodes, last.cycle).failed = {}

\* C5: promote(id) on a node of the migrated store that is not constant
\* succeeds: that node becomes constant with promoted_from its old layer,
\* quarantine_until NULL and version one more, the result is
\* {from: old layer, to: constant}, and no other node changes.
C5_PromoteSucceeds ==
    (/\ last.op = "promote"
     /\ migrated
     /\ last.id \in DOMAIN prev
     /\ prev[last.id].memory_layer \in {"mutating", "file"})
    => /\ last.success
       /\ last.from = prev[last.id].memory_layer
       /\ last.to = "constant"
       /\ nodes = [prev EXCEPT ![last.id] =
                      [@ EXCEPT !.memory_layer = "constant",
                                !.promoted_from = Some(prev[last.id].memory_layer),
                                !.quarantine_until = NULL,
                                !.version = prev[last.id].version + 1]]

\* a quarantined mutating node promoted by hand, beside another node
C5_Witness ==
    /\ last.op = "promote"
    /\ last.success
    /\ last.from = "mutating"
    /\ ~IsNull(prev[last.id].quarantine_until)
    /\ IsNull(nodes[last.id].quarantine_until)
    /\ nodes[last.id].memory_layer = "constant"
    /\ nodes[last.id].version = 2
    /\ \E m \in DOMAIN prev : m # last.id /\ nodes[m] = prev[m]

\* C6: a failed promote or deprecate changes nothing.  On the migrated
\* store, promote of a constant node fails with "Already constant", and
\* promote or deprecate of an id that is not in the store fails with
\* "Node not found"; every failure is a result with success = false, and
\* the store is as it was.
C6_FailureChangesNothing ==
    /\ (last.op = "promote" /\ migrated /\ last.id \in DOMAIN prev
        /\ prev[last.id].memory_layer = "constant")
       => (~last.success /\ last.error = "Already constant")
    /\ (last.op \in {"promote", "deprecate"} /\ migrated
        /\ last.id \notin DOMAIN prev)
       => (~last.success /\ last.error = "Node not found")
    /\ (last.op \in {"promote", "deprecate"} /\ ~last.success)
       => nodes = prev

\* promote of a node that an earlier promotion made constant
C6_Witness ==
    /\ last.op = "promote"
    /\ ~last.success
    /\ last.error = "Already constant"
    /\ prev[last.id].memory_layer = "constant"
    /\ prev[last.id].version = 2
    /\ nodes = prev

\* gepa-store has just inserted a row with its GEPA columns (the store is
\* migrated); NewRow is that row
GepaCreated == last.op = "gepa-store" /\ last.success /\ last.gepa
NewRow == nodes[last.id]

\* C7 (as stated): every node of type file has memory_layer = file right
\* after its creation, whatever its importance.
C7_FileTypeAlwaysFileLayer ==
    (GepaCreated /\ last.type = "file") => NewRow.memory_layer = "file"

\* C7 (amended): a node of type file created by gepa-store on the migrated
\* store with no --layer has memory_layer = file, whatever its importance.
C7_FileTypeFileLayerByDefault ==
    (GepaCreated /\ last.layer = NoLayer /\ last.type = "file")
    => NewRow.memory_layer = "file"

C7_Witness ==
    /\ GepaCreated
    /\ last.layer = NoLayer
    /\ last.type = "file"
    /\ last.importance = 10000
    /\ NewRow.memory_layer = "file"

\* the classifier rule as the specification words it
C8_Rule(node_type, importance) ==
    CASE node_type = "file" -> "file"
      [] node_type # "file" /\ node_type \in {"pattern", "decision"}
         /\ importance >= 8000 -> "constant"
      [] OTHER -> "mutating"

\* C8: gepa-store with no --layer stores the layer the classifier rule gives
\* for the type and importance the caller supplied: file for type file, else
\* constant for pattern or decision with importance >= 0.8, else mutating.
C8_DefaultLayerIsRule ==
    (GepaCreated /\ last.layer = NoLayer)
    => NewRow.memory_layer = C8_Rule(last.type, last.importance)

C8_Witness ==
    /\ GepaCreated
    /\ last.layer = NoLayer
    /\ last.type = "decision"
    /\ last.importance = 8000
    /\ NewRow.memory_layer = "constant"

\* C9: gepa-store with --layer L stores memory_layer = L for every type and
\* importance; the classifier rule plays no part.
C9_ExplicitLayerWins ==
    (GepaCreated /\ last.layer \in Layers) => NewRow.memory_layer = last.layer

C9_Witness ==
    /\ GepaCreated
    /\ last.layer = "mutating"
    /\ last.type = "pattern"
    /\ last.importance = 10000
    /\ NewRow.memory_layer = "mutating"

\* C10: right after a create (gepa-store on the migrated store) the new node
\* has an id no other node had, access_count 0, importance as supplied,
\* fitness equal to that importance, generation 0, version 1, deprecated_at,
\* promoted_from and quarantine_until NULL, and every node already stored is
\* as it was.
C10_CreateDefaults ==
    GepaCreated
    => /\ last.id \notin DOMAIN prev
       /\ DOMAIN nodes = DOMAIN prev \cup {last.id}
       /\ \A n \in DOMAIN prev : nodes[n] = prev[n]
       /\ NewRow.access_count = 0
       /\ NewRow.importance = last.importance
       /\ NewRow.fitness = last.importance
       /\ NewRow.generation = 0
       /\ NewRow.version = 1
       /\ IsNull(NewRow.deprecated_at)
       /\ IsNull(NewRow.promoted_from)
       /\ IsNull(NewRow.quarantine_until)

\* C11 (as stated): the GEPA query path never returns a deprecated node:
\* whatever the text, the layer filter and the limit, no row of a gepa-query
\* result on the migrated store has a non-NULL deprecated_at.
C11_GepaQueryExcludesDeprecated ==
    (last.op = "gepa-query" /\ last.gepa)
    => \A i \in 1..Len(last.results) :
          IsNull(prev[last.results[i]].deprecated_at)

\* the columns C12 speaks of
LifecycleColumns(row) ==
    <<row.fitness, row.memory_layer, row.version, row.promoted_from,
      row.quarantine_until>>

\* C12 (as stated): no fitness-update, promote or quarantine-check changes
\* the fitness, memory_layer, version, promoted_from or quarantine_until of
\* a node whose deprecated_at is not NULL.
C12_DeprecatedNeverSelected ==
    last.op \in {"fitness-update", "promote", "quarantine-check"}
    => \A n \in DOMAIN prev :
          ~IsNull(prev[n].deprecated_at)
          => LifecycleColumns(nodes[n]) = LifecycleColumns(prev[n])

\* C13: in every reachable state a node of the constant layer, and so every
\* node promoted by promote or by quarantine-check, has quarantine_until
\* NULL (quarantine_until being written on mutating nodes only).
C13_ConstantNotQuarantined ==
    \A n \in DOMAIN nodes :
        (nodes[n].memory_layer = "constant" \/ ~IsNull(nodes[n].promoted_from))
        => IsNull(nodes[n].quarantine_until)

\* a node under quarantine that quarantine-check has just made constant
C13_Witness ==
    /\ last.op = "quarantine-check"
    /\ \E n \in DOMAIN prev :
          /\ ~IsNull(prev[n].quarantine_until)
          /\ prev[n].memory_layer = "mutating"
          /\ nodes[n].memory_layer = "constant"
          /\ nodes[n].promoted_from = Some("mutating")
          /\ IsNull(nodes[n].quarantine_until)

\* the rows a fitness-update with the printed layer filter scored
Scored == {n \in DOMAIN prev : last.layer = NoLayer \/ prev[n].memory_layer = last.layer}
FitnessUpdated == last.op = "fitness-update" /\ migrated

\* C14 (as stated): after every fitness-update, with or without a layer
\* filter and for any max_age_days >= 1, every fitness written lies in
\* [0, 1], also for a node whose accessed_at is later than the current time
\* and whose access_count is the population's maximum.
C14_FitnessInUnitInterval ==
    (FitnessUpdated /\ last.max_age_days >= 1)
    => \A n \in Scored : nodes[n].fitness >= 0 /\ nodes[n].fitness <= 10000

AbsDiff(a, b) == IF a >= b THEN a - b ELSE b - a

\* the weighted sum of C15 for a scored row, times 10000, as the fraction
\* num/den: access_norm = access_count / max(population maximum, 1),
\* age_factor = max(0, 1 - days/max_age_days), referral_factor =
\* min(1, inbound/5)
C15_Sum(n) ==
    LET row == prev[n]
        counts == {prev[m].access_count : m \in Scored}
        top == CHOOSE c \in counts : \A x \in counts : x <= c
        M == IF top < 1 THEN 1 ELSE top
        A == last.max_age_days
        days == (now - row.accessed_at) \div 24
        age == IF A - days < 0 THEN 0 ELSE A - days
        inb == Cardinality({r \in relations : r[3] = n})
        ref == IF inb < 5 THEN inb ELSE 5
    IN  [num |-> 3000 * row.access_count * 50 * A
                 + 3 * row.importance * 5 * M * A
                 + 2000 * age * 50 * M
                 + 2000 * ref * 10 * M * A,
         den |-> 50 * M * A]

C16_MigrateIdempotent ==
    /\ LET first == Migrate(nodes, migrated)
           second == Migrate(first.nodes, TRUE)
       IN  second.migrations = <<>> /\ second.nodes = first.nodes
    \* a store that holds a promoted node has been migrated before
    /\ (last.op = "migrate" /\ \E n \in DOMAIN prev : prev[n].version > 1)
       => (last.migrations = <<>> /\ nodes = prev)

\* a second migrate over a store that holds a pattern of importance 0.9
\* stored as mutating since the first one, and a promoted node
C16_Witness ==
    /\ last.op = "migrate"
    /\ last.migrations = <<>>
    /\ nodes = prev
    /\ \E n \in DOMAIN nodes :
          /\ nodes[n].node_type = "pattern"
          /\ nodes[n].importance >= 8000
          /\ nodes[n].memory_layer = "mutating"
    /\ \E n \in DOMAIN nodes : nodes[n].version = 2

\* r is what the plain query returns for the text and the limit on store:
\* rows that match the text, each once, by importance and then access_count
\* descending, all of them or the first `limit`
PlainQueryResult(store, text, limit, r) ==
    LET matching == {n \in DOMAIN store : TextMatches(store[n].content, text)}
    IN  /\ \A i \in 1..Len(r) : r[i] \in matching
        /\ \A i, j \in 1..Len(r) : i # j => r[i] # r[j]
        /\ \A i \in 1..(Len(r) - 1) :
              \/ store[r[i]].importance > store[r[i + 1]].importance
              \/ /\ store[r[i]].importance = store[r[i + 1]].importance
                 /\ store[r[i]].access_count >= store[r[i + 1]].access_count
        /\ \A n \in matching : \A i \in 1..Len(r) :
              (\A k \in 1..Len(r) : r[k] # n)
              => store[n].importance <= store[r[i]].importance
        /\ Len(r) = IF limit < 0 \/ limit > Cardinality(matching)
                    THEN Cardinality(matching) ELSE limit

\* C17 (as stated): before the migration, fitness-update, reflect, promote,
\* deprecate and quarantine-check print a failure (fitness-update: updated
\* 0 with the error) and change no node; gepa-store inserts exactly one node
\* with the type and the importance supplied; gepa-query changes nothing and
\* returns what the plain query returns for its text and limit.
C17_FallbackBeforeMigration ==
    ~migrated =>
        /\ last.op \in {"reflect", "promote", "deprecate", "quarantine-check"}
           => (nodes = prev /\ ~last.success /\ last.error = "GEPA not migrated")
        /\ last.op = "fitness-update"
           => (nodes = prev /\ last.updated = 0 /\ last.error = "GEPA not migrated")
        /\ (last.op = "gepa-store" /\ last.success)
           => /\ ~last.gepa
              /\ last.id \notin DOMAIN prev
              /\ DOMAIN nodes = DOMAIN prev \cup {last.id}
              /\ \A n \in DOMAIN prev : nodes[n] = prev[n]
              /\ nodes[last.id].node_type = last.type
              /\ nodes[last.id].importance = last.importance
        /\ last.op = "gepa-query"
           => /\ ~last.gepa
              /\ nodes = prev
              /\ PlainQueryResult(prev, last.text,
                                  IF last.limit = 0 THEN 10 ELSE last.limit,
                                  last.results)

\* C18: the first migrate gives every node it finds the layer of the
\* creation rule for the node's type and importance (file for type file;
\* constant for pattern or decision with importance >= 0.8; mutating
\* otherwise) and changes nothing else, and no migrate changes a node that
\* is not mutating.
C18_BackfillIsCreationRule ==
    last.op = "migrate" =>
        /\ last.migrations # <<>>
           => /\ DOMAIN nodes = DOMAIN prev
              /\ \A n \in DOMAIN prev :
                    nodes[n] = [prev[n] EXCEPT !.memory_layer =
                                   C8_Rule(prev[n].node_type, prev[n].importance)]
        /\ \A n \in DOMAIN prev :
              prev[n].memory_layer # "mutating" => nodes[n] = prev[n]

\* the first migrate over a store that holds a decision of importance 0.8
C18_Witness ==
    /\ last.op = "migrate"
    /\ last.migrations # <<>>
    /\ \E n \in DOMAIN prev :
          /\ prev[n].node_type = "decision"
          /\ prev[n].importance = 8000
          /\ prev[n].memory_layer = "mutating"
          /\ nodes[n].memory_layer = "constant"

\* a row quarantine-check selects whose quarantine_until is not an integer
Unparseable(row) ==
    /\ ~IsNull(row.quarantine_until)
    /\ Val(row.quarantine_until) # <<>>
    /\ ~ParseInt(Val(row.quarantine_until)).ok

\* C19: quarantine-check at any cycle leaves every node whose (non-empty)
\* quarantine_until is not an integer exactly as it was, lists it as neither
\* promoted nor failed and counts it, if it is an active mutating node, in
\* pending; the other nodes of the batch are resolved as usual.
C19_UnparseableSkipped ==
    (last.op = "quarantine-check" /\ migrated) =>
        /\ \A n \in DOMAIN prev :
              Unparseable(prev[n])
              => /\ nodes[n] = prev[n]
                 /\ n \notin PromotedIds \cup FailedIds
        /\ last.pending = Cardinality({n \in DOMAIN prev :
              /\ ActiveMutating(prev[n])
              /\ Unparseable(prev[n]) \/ NotDue(prev[n], last.cycle)})
        /\ (\E n \in DOMAIN prev : ActiveMutating(prev[n]) /\ Unparseable(prev[n]))
           => \A m \in DOMAIN prev :
                 (ActiveMutating(prev[m]) /\ Due(prev[m], last.cycle))
                 => /\ IsNull(nodes[m].quarantine_until)
                    /\ m \in PromotedIds <=> prev[m].fitness >= 8000
                    /\ m \in FailedIds <=> prev[m].fitness < 8000

\* a batch of a node with quarantine_until "x", which stays pending, and a
\* due node, which is promoted
C19_Witness ==
    /\ last.op = "quarantine-check"
    /\ last.pending = 1
    /\ \E n, m \in DOMAIN prev :
          /\ ActiveMutating(prev[n])
          /\ Unparseable(prev[n])
          /\ nodes[n] = prev[n]
          /\ m \in PromotedIds
          /\ nodes[m].memory_layer = "constant"

\* C20: reflect changes no node, and the quarantine count it prints is the
\* number of nodes that are not deprecated, are in the mutating layer and
\* have a quarantine_until that is neither NULL nor empty: the nodes
\* quarantine-check selects in that state.
C20_ReflectCountsQuarantined ==
    (last.op = "reflect" /\ migrated) =>
        /\ nodes = prev
        /\ last.success
        /\ last.pending = Cardinality({n \in DOMAIN prev :
              /\ IsNull(prev[n].deprecated_at)
              /\ prev[n].memory_layer = "mutating"
              /\ ~IsNull(prev[n].quarantine_until)
              /\ Val(prev[n].quarantine_until) # <<>>})
        /\ last.pending = Cardinality(quarantined(prev))

\* reflect over a store with a quarantined active node, a quarantined node
\* deprecated since, counting one
C20_Witness ==
    /\ last.op = "reflect"
    /\ last.pending = 1
    /\ \E n, m \in DOMAIN prev :
          /\ n # m
          /\ ActiveMutating(prev[n]) /\ ~IsNull(prev[n].quarantine_until)
          /\ ~IsNull(prev[m].deprecated_at) /\ ~IsNull(prev[m].quarantine_until)
          /\ Val(prev[m].quarantine_until) # <<>>

\* node n is out of quarantine: quarantine_until NULL, and constant or
\* active mutating
Resolved(n) ==
    IF n \in DOMAIN nodes
    THEN /\ IsNull(nodes[n].quarantine_until)
         /\ nodes[n].memory_layer = "constant" \/ ActiveMutating(nodes[n])
    ELSE FALSE
\* node n has quarantine_until set
Quarantined(n) ==
    IF n \in DOMAIN nodes THEN ~IsNull(nodes[n].quarantine_until) ELSE FALSE
\* node n is an active mutating node on probation until an integer cycle
OnTrial(n) ==
    IF n \in DOMAIN nodes
    THEN ActiveMutating(nodes[n]) /\ HasCycle(nodes[n])
    ELSE FALSE
Deprecated(n) ==
    IF n \in DOMAIN nodes THEN ~IsNull(nodes[n].deprecated_at) ELSE FALSE

\* C21 (as stated): with the cycle counter increasing and quarantine-check
\* run at every cycle, every node whose quarantine_until is set is
\* eventually out of quarantine.
C21_EveryQuarantineResolved ==
    \A n \in CycleIds : Quarantined(n) ~> Resolved(n)

\* C21 (amended): with the cycle counter increasing and quarantine-check
\* run at every cycle, every active mutating node whose quarantine_until is
\* an integer cycle is eventually out of quarantine, unless it is deprecated
\* first.
C21_IntegerQuarantineResolved ==
    \A n \in CycleIds : OnTrial(n) ~> (Resolved(n) \/ Deprecated(n))

\* a quarantine-check at cycle 1 that has just returned to active a node
\* put on probation until cycle 1 while the counter was at 0
C21_Witness ==
    /\ last.op = "quarantine-check"
    /\ last.cycle = 1
    /\ cycle_counter = 1
    /\ \E n \in DOMAIN prev :
          /\ ActiveMutating(prev[n])
          /\ HasCycle(prev[n]) /\ CycleOf(prev[n]) = 1
          /\ n \in FailedIds
          /\ IsNull(nodes[n].quarantine_until)
          /\ ActiveMutating(nodes[n])

\* ------------------------------------------------------------------
\* what a finished process read and printed about node n
ReadMutating(p, n) ==
    IF procs[p].op = "promote"
    THEN procs[p].id = n /\ procs[p].row = <<"mutating">>
    ELSE /\ procs[p].op = "quarantine-check"
         /\ n \in DOMAIN procs[p].quarantined
         /\ RowOutcome(procs[p].quarantined[n], procs[p].cycle) = "promoted"
ReportsPromotion(p, n) ==
    IF procs[p].op = "promote"
    THEN procs[p].id = n /\ procs[p].success /\ procs[p].from = "mutating"
    ELSE /\ procs[p].op = "quarantine-check"
         /\ n \in {r.id : r \in procs[p].promoted}
BothFinished(p, q, n) ==
    /\ p # q
    /\ procs[p].pc = "done" /\ procs[q].pc = "done"
    /\ ReadMutating(p, n) /\ ReadMutating(q, n)

\* C22: promote and quarantine-check read, then write, and the two are not
\* one atomic step. When two of them (promote and quarantine-check, or two
\* promote) run on the same quarantined mutating node and both read it as
\* mutating, which is to say before either writes, then both promotions are
\* applied: once both have finished, both report a promotion from mutating
\* and the node's version, 1 when it was created, has been incremented
\* twice.
C22_BothPromotionsApplied ==
    \A p \in Procs, q \in Procs, n \in DOMAIN nodes :
        BothFinished(p, q, n) =>
            /\ ReportsPromotion(p, n) /\ ReportsPromotion(q, n)
            /\ nodes[n].version = 3
            /\ nodes[n].memory_layer = "constant"
            /\ nodes[n].promoted_from = Some("mutating")
            /\ IsNull(nodes[n].quarantine_until)

\* promote and quarantine-check have both promoted the same quarantined node
C22_Witness ==
    \E p \in Procs, q \in Procs, n \in DOMAIN nodes :
        /\ BothFinished(p, q, n)
        /\ procs[p].op = "promote" /\ procs[q].op = "quarantine-check"
        /\ ReportsPromotion(p, n) /\ ReportsPromotion(q, n)
        /\ nodes[n].version = 3

\* ------------------------------------------------------------------
\* one step keeps the layer of node n, or moves it to constant
LayerKeptOrConstant(n) ==
    \/ nodes'[n].memory_layer = nodes[n].memory_layer
    \/ nodes'[n].memory_layer = "constant"

\* C23: the constant layer is absorbing and layers only move toward
\* constant. Whatever command runs (create, fitness-update, promote,
\* deprecate, quarantine-check, reflect, migrate again), every node stays in
\* the table, a node that is constant before the step is constant after it,
\* and once the store is migrated no step changes the layer of an existing
\* node to mutating or to file.
C23_LayersOnlyMoveToConstant ==
    [][\A n \in DOMAIN nodes :
          /\ n \in DOMAIN nodes'
          /\ nodes[n].memory_layer = "constant" => nodes'[n].memory_layer = "constant"
          /\ migrated => LayerKeptOrConstant(n)]_vars

\* a second migrate has found a promoted node, next to a file node stored
\* after the first migrate, and has left both layers alone
C23_Witness ==
    /\ last.op = "migrate" /\ last.migrations = <<>>
    /\ \E n \in DOMAIN prev :
          /\ prev[n].memory_layer = "constant" /\ ~IsNull(prev[n].promoted_from)
          /\ nodes[n].memory_layer = "constant"
    /\ \E n \in DOMAIN prev :
          /\ prev[n].node_type = "file" /\ prev[n].memory_layer = "mutating"
          /\ nodes[n].memory_layer = "mutating"

\* ------------------------------------------------------------------
\* version and promoted_from of one row agree: promoted at most once
PromotedAtMostOnce(row) ==
    /\ row.version \in {1, 2}
    /\ row.version = 2 <=> ~IsNull(row.promoted_from)
    /\ row.promoted_from # Some("constant")
    /\ ~IsNull(row.promoted_from) => row.memory_layer = "constant"

\* the command that has just run reports the promotion of node n
PromotionReported(res, n) ==
    \/ res.op = "promote" /\ res.success /\ res.id = n
    \/ res.op = "quarantine-check" /\ n \in {r.id : r \in res.promoted}

\* C24: with commands run one after the other every node is promoted at
\* most once: after every step each node has version 1 or 2, version 2
\* exactly when promoted_from is not NULL, promoted_from is never constant,
\* and a node with promoted_from is constant; and in every step version
\* does not decrease and changes only for a node whose promotion the
\* command (promote or quarantine-check) reports.
C24_PromotedAtMostOnce ==
    [][/\ \A n \in DOMAIN nodes' : PromotedAtMostOnce(nodes'[n])
       /\ \A n \in DOMAIN nodes :
             /\ nodes'[n].version >= nodes[n].version
             /\ nodes'[n].version # nodes[n].version => PromotionReported(last', n)]_vars

\* promote has been refused on a node that quarantine-check promoted
\* earlier: its version is still 2
C24_Witness ==
    /\ last.op = "promote" /\ ~last.success /\ last.error = "Already constant"
    /\ last.id \in DOMAIN nodes
    /\ nodes[last.id].version = 2
    /\ nodes[last.id].promoted_from = Some("mutating")
    /\ \E n \in DOMAIN nodes :
          nodes[n].version = 2 /\ nodes[n].promoted_from = Some("file")
====
